---- MODULE Spec2Model ----
(***************************************************************************)
(* Model of netlify/functions/chatkit-session.js: the serverless handler   *)
(* that validates an inbound request, issues one outbound session-creation *)
(* call and reshapes its result.                                           *)
(*                                                                         *)
(* JavaScript values are records [t, s, n, f]: t the type tag, s the text  *)
(* of a string, n the value of a number, f the fields of an object as a    *)
(* sequence of <<key, value>> pairs in insertion order (the order          *)
(* JSON.stringify writes them in).                                         *)
(***************************************************************************)
EXTENDS Integers, Sequences, FiniteSets, TLC

VARIABLES
    pc,           \* position of the invocation in the handler
    invocations,  \* number of invocations started so far
    event,        \* the inbound event: [httpMethod, body]
    env,          \* process.env.OPENAI_API_KEY at invocation time
    body,         \* const body  (line 7)
    user,         \* const user  (line 8)
    apiKey,       \* const apiKey (line 18)
    r,            \* const r: the outbound response, [status, text, complete]
    data,         \* const data (line 46)
    e,            \* the exception bound by catch (line 61)
    calls,        \* history: the outbound requests issued by this invocation
    steps,        \* history: the steps this invocation has executed, in order
    responses     \* history: the values this invocation has returned

vars == <<pc, invocations, event, env, body, user, apiKey, r, data, e,
          calls, steps, responses>>

----------------------------------------------------------------------------
(* Bounds *)

MaxInvocations == 2

----------------------------------------------------------------------------
(* JavaScript values *)

Undefined == [t |-> "undefined", s |-> "", n |-> 0, f |-> <<>>]

Null == [t |-> "null", s |-> "", n |-> 0, f |-> <<>>]

True == [t |-> "true", s |-> "", n |-> 0, f |-> <<>>]

False == [t |-> "false", s |-> "", n |-> 0, f |-> <<>>]

Num(n) == [t |-> "number", s |-> "", n |-> n, f |-> <<>>]

Str(s) == [t |-> "string", s |-> s, n |-> 0, f |-> <<>>]

Obj(f) == [t |-> "object", s |-> "", n |-> 0, f |-> f]

\* ToBoolean, as applied by `!x` and `x || y`.
ToBoolean(v) ==
    CASE v.t \in {"undefined", "null", "false"} -> FALSE
      [] v.t = "number" -> v.n # 0
      [] v.t = "string" -> v.s # ""
      [] OTHER -> TRUE

HasProp(v, key) ==
    v.t = "object" /\ \E i \in 1..Len(v.f) : v.f[i][1] = key

\* v.key for a value that is neither null nor undefined: the field's value,
\* or undefined when v holds no such field (primitives are boxed and hold
\* none of the keys the handler reads).
GetProp(v, key) ==
    IF HasProp(v, key)
    THEN v.f[CHOOSE i \in 1..Len(v.f) : v.f[i][1] = key][2]
    ELSE Undefined

\* v.key throws a TypeError when v is null or undefined.
PropThrows(v) == v.t \in {"null", "undefined"}

NoException == [name |-> "", message |-> ""]

PropTypeError(v, key) ==
    [name |-> "TypeError",
     message |-> "Cannot read properties of " \o v.t \o " (reading '" \o key \o "')"]

\* String(e) of an Error: name, colon, message.
StringOf(ex) == ex.name \o ": " \o ex.message

----------------------------------------------------------------------------
(* JSON.stringify and JSON.parse *)

\* A string literal. The strings of the model hold no character that
\* JSON.stringify escapes.
Quote(s) == "\"" \o s \o "\""

RECURSIVE JSONStringify(_)
RECURSIVE StringifyFields(_, _)

\* The members of an object from the i-th on; a member whose value is
\* undefined is left out.
StringifyFields(f, i) ==
    IF i > Len(f) THEN ""
    ELSE LET rest == StringifyFields(f, i + 1)
         IN  IF f[i][2].t = "undefined" THEN rest
             ELSE Quote(f[i][1]) \o ":" \o JSONStringify(f[i][2])
                  \o (IF rest = "" THEN "" ELSE "," \o rest)

JSONStringify(v) ==
    CASE v.t = "null" -> "null"
      [] v.t = "true" -> "true"
      [] v.t = "false" -> "false"
      [] v.t = "number" -> ToString(v.n)
      [] v.t = "string" -> Quote(v.s)
      [] v.t = "object" -> "{" \o StringifyFields(v.f, 1) \o "}"

----------------------------------------------------------------------------
(* The inputs of the model *)

WORKFLOW_ID == "wf_69678af259b88190b90406b5dee162630cb508e02a638d96"

\* The values the texts of inbound bodies denote.
RequestValues ==
    { Obj(<< <<"user", Str("u1")>> >>),
      Obj(<< <<"user", Str("u1")>>, <<"other", Str("ignored")>> >>),
      Obj(<< <<"user", Num(1)>> >>),
      Obj(<< <<"user", Str("")>> >>),
      Obj(<< <<"user", Num(0)>> >>),
      Obj(<< <<"user", False>> >>),
      Obj(<< <<"user", Null>> >>),
      Obj(<< <<"other", Str("ignored")>> >>),
      Obj(<<>>),
      Str("u1"),
      Num(1),
      Null }

\* The values the texts of outbound response bodies denote.
UpstreamValues ==
    { Obj(<< <<"client_secret", Str("sec_123")>>, <<"other", Str("ignored")>> >>),
      Obj(<< <<"client_secret", Str("sec_123")>> >>),
      Obj(<< <<"other", Str("ignored")>> >>),
      Obj(<< <<"error", Str("invalid_api_key")>> >>),
      Obj(<<>>),
      Str("ignored"),
      Null }

\* Texts that end where a value is due, and the empty text.
TruncatedTexts == { "", "{\"user\":", "{\"client_secret\":" }

\* Texts that end where the name of an object's first member is due.
UnclosedTexts == { "{" }

SyntaxErrorEndOfInput ==
    [name |-> "SyntaxError", message |-> "Unexpected end of JSON input"]

SyntaxErrorExpectedProperty ==
    [name |-> "SyntaxError",
     message |-> "Expected property name or '}' in JSON at position 1"]

FetchFailed == [name |-> "TypeError", message |-> "fetch failed"]

BodyTerminated == [name |-> "TypeError", message |-> "terminated"]

Exceptions ==
    { SyntaxErrorEndOfInput, SyntaxErrorExpectedProperty, FetchFailed,
      BodyTerminated,
      PropTypeError(Null, "user"), PropTypeError(Null, "client_secret") }

ErrorTexts ==
    { StringOf(ex) : ex \in Exceptions }
        \cup { "Missing 'user'", "Missing OPENAI_API_KEY in Netlify env" }

\* The JSON documents of the model: the inputs, and the shapes the handler
\* wraps them in.
JsonDocs ==
    LET leaves == RequestValues \cup UpstreamValues
                    \cup { Str(t) : t \in ErrorTexts }
    IN  leaves
          \cup { Obj(<< <<"error", v>> >>) : v \in leaves }
          \cup { Obj(<< <<"client_secret", GetProp(v, "client_secret")>> >>) :
                   v \in { u \in UpstreamValues : HasProp(u, "client_secret") } }

\* Documents written with insignificant white space.
SpacedTexts == { "{ \"user\": \"u1\" }" }

SpacedValue(text) ==
    CASE text = "{ \"user\": \"u1\" }" -> Obj(<< <<"user", Str("u1")>> >>)

IsJSONText(text) ==
    text \in SpacedTexts \/ \E v \in JsonDocs : JSONStringify(v) = text

\* JSON.parse: the value a document denotes, or the SyntaxError thrown for
\* an empty, truncated or unclosed text.
JSONParse(text) ==
    IF text \in SpacedTexts
    THEN [ok |-> TRUE, val |-> SpacedValue(text), exc |-> NoException]
    ELSE IF \E v \in JsonDocs : JSONStringify(v) = text
    THEN [ok |-> TRUE,
          val |-> CHOOSE v \in JsonDocs : JSONStringify(v) = text,
          exc |-> NoException]
    ELSE CASE text \in TruncatedTexts ->
              [ok |-> FALSE, val |-> Undefined, exc |-> SyntaxErrorEndOfInput]
           [] text \in UnclosedTexts ->
              [ok |-> FALSE, val |-> Undefined,
               exc |-> SyntaxErrorExpectedProperty]

RequestTexts ==
    { JSONStringify(v) : v \in RequestValues } \cup SpacedTexts
        \cup { "{\"user\":", "{" }

\* event.body: absent, null, or a string (possibly empty).
EventBodies == { Undefined, Null, Str("") } \cup { Str(t) : t \in RequestTexts }

Methods == { "POST", "GET", "post" }

Events == [httpMethod : Methods, body : EventBodies]

\* process.env.OPENAI_API_KEY: unset, set to the empty string, or set.
EnvKeys == { Undefined, Str(""), Str("sk-test") }

UpstreamTexts ==
    { JSONStringify(v) : v \in UpstreamValues } \cup { "", "{\"client_secret\":", "{" }

Statuses == { 200, 201, 400, 401, 405, 500, 502 }

\* The outbound response: its status, the text of its body, and whether the
\* body arrives whole.
NoResponse == [status |-> 0, text |-> "", complete |-> FALSE]

----------------------------------------------------------------------------
(* The handler's conditions and the responses it builds *)

\* Mutant: the method is compared without regard to case.
MethodAllowedAnyCase(m) == m \in { "POST", "post" }

\* event.httpMethod !== "POST" (line 3), negated.
MethodAllowed(m) == m = "POST"

\* Mutant: the body is parsed as it comes, with no default for a missing one.
BodyAsIs(b) == b

\* event.body || "{}" (line 7).
BodyOrDefault(b) == IF ToBoolean(b) THEN b ELSE Str("{}")

\* Mutant: the check tests presence, not truthiness.
UserUndefined(u) == u.t = "undefined"

\* !user (line 10).
UserMissing(u) == ~ToBoolean(u)

\* !apiKey (line 19).
KeyMissing(k) == ~ToBoolean(k)

\* r.ok (line 48), negated there.
Ok(status) == status >= 200 /\ status <= 299

JsonHeaders == { <<"Content-Type", "application/json">> }

\* Mutant: the 405 is tagged as JSON like every other response.
MethodNotAllowedTagged ==
    [statusCode |-> 405, headers |-> JsonHeaders, body |-> "Method Not Allowed"]

\* Line 4.
MethodNotAllowedResponse ==
    [statusCode |-> 405, headers |-> {}, body |-> "Method Not Allowed"]

\* Lines 11-15.
MissingUserResponse ==
    [statusCode |-> 400, headers |-> JsonHeaders,
     body |-> JSONStringify(Obj(<< <<"error", Str("Missing 'user'")>> >>))]

\* Mutant: the missing credential is reported as the caller's fault.
MissingKeyResponseUnauthorized ==
    [statusCode |-> 401, headers |-> JsonHeaders,
     body |-> JSONStringify(
                Obj(<< <<"error", Str("Missing OPENAI_API_KEY in Netlify env")>> >>))]

\* Lines 20-24.
MissingKeyResponse ==
    [statusCode |-> 500, headers |-> JsonHeaders,
     body |-> JSONStringify(
                Obj(<< <<"error", Str("Missing OPENAI_API_KEY in Netlify env")>> >>))]

\* Mutant: every upstream failure is reported as a bad gateway.
UpstreamErrorResponseBadGateway(status, d) ==
    [statusCode |-> 502, headers |-> JsonHeaders,
     body |-> JSONStringify(Obj(<< <<"error", d>> >>))]

\* Lines 49-53.
UpstreamErrorResponse(status, d) ==
    [statusCode |-> status, headers |-> JsonHeaders,
     body |-> JSONStringify(Obj(<< <<"error", d>> >>))]

\* Mutant: the outbound body is handed on whole.
SuccessResponseWholeBody(d) ==
    [statusCode |-> 200, headers |-> JsonHeaders, body |-> JSONStringify(d)]

\* Lines 56-60.
SuccessResponse(d) ==
    [statusCode |-> 200, headers |-> JsonHeaders,
     body |-> JSONStringify(
                Obj(<< <<"client_secret", GetProp(d, "client_secret")>> >>))]

\* Mutant: the response carries e.message, not String(e).
CaughtResponseMessageOnly(ex) ==
    [statusCode |-> 500, headers |-> JsonHeaders,
     body |-> JSONStringify(Obj(<< <<"error", Str(ex.message)>> >>))]

\* Lines 62-66.
CaughtResponse(ex) ==
    [statusCode |-> 500, headers |-> JsonHeaders,
     body |-> JSONStringify(Obj(<< <<"error", Str(StringOf(ex))>> >>))]

\* The request handed to fetch (lines 29-44).
OutboundRequest(u, k) ==
    [url |-> "https://api.openai.com/v1/chatkit/sessions",
     method |-> "POST",
     headers |-> { <<"Authorization", "Bearer " \o k.s>>,
                   <<"Content-Type", "application/json">>,
                   <<"OpenAI-Beta", "chatkit_beta=v1">> },
     body |-> JSONStringify(Obj(<<
                <<"user", u>>,
                <<"workflow", Obj(<< <<"id", Str(WORKFLOW_ID)>> >>)>>,
                <<"chatkit_configuration",
                  Obj(<< <<"file_upload", Obj(<< <<"enabled", True>> >>)>> >>)>> >>))]

----------------------------------------------------------------------------
(* The handler *)

Init ==
    /\ pc = "idle"
    /\ invocations = 0
    /\ event = [httpMethod |-> "POST", body |-> Undefined]
    /\ env = Undefined
    /\ body = Undefined
    /\ user = Undefined
    /\ apiKey = Undefined
    /\ r = NoResponse
    /\ data = Undefined
    /\ e = NoException
    /\ calls = <<>>
    /\ steps = <<>>
    /\ responses = <<>>

\* return <resp>: the invocation's promise is fulfilled with resp.
Return(resp) ==
    /\ pc' = "returned"
    /\ responses' = Append(responses, resp)
    /\ e' = e

\* Mutant: the exception is raised outside any try block and leaves the
\* handler.
ThrowPropagates(ex) ==
    /\ pc' = "threw"
    /\ e' = ex
    /\ responses' = responses

\* An exception raised inside the try block (lines 2-60) is bound by the
\* catch clause of line 61.
Throw(ex) ==
    /\ pc' = "catch"
    /\ e' = ex
    /\ responses' = responses

Goto(label) ==
    /\ pc' = label
    /\ e' = e
    /\ responses' = responses

\* The platform calls exports.handler(event); nothing outlives an invocation.
Invoke ==
    /\ pc \in {"idle", "returned"}
    /\ invocations < MaxInvocations
    /\ invocations' = invocations + 1
    /\ event' \in Events
    /\ env' \in EnvKeys
    /\ body' = Undefined
    /\ user' = Undefined
    /\ apiKey' = Undefined
    /\ r' = NoResponse
    /\ data' = Undefined
    /\ e' = NoException
    /\ calls' = <<>>
    /\ steps' = <<>>
    /\ responses' = <<>>
    /\ pc' = "method"

\* Lines 3-5.
MethodCheck ==
    /\ pc = "method"
    /\ steps' = Append(steps, "method")
    /\ IF MethodAllowed(event.httpMethod)
       THEN Goto("parse")
       ELSE Return(MethodNotAllowedResponse)
    /\ UNCHANGED <<invocations, event, env, body, user, apiKey, r, data, calls>>

\* Line 7.
BodyParse ==
    /\ pc = "parse"
    /\ steps' = Append(steps, "parse")
    /\ LET p == JSONParse(BodyOrDefault(event.body).s)
       IN  IF p.ok
           THEN body' = p.val /\ Goto("user")
           ELSE body' = body /\ Throw(p.exc)
    /\ UNCHANGED <<invocations, event, env, user, apiKey, r, data, calls>>

\* Lines 8-16.
UserCheck ==
    /\ pc = "user"
    /\ steps' = Append(steps, "user")
    /\ IF PropThrows(body)
       THEN user' = user /\ Throw(PropTypeError(body, "user"))
       ELSE /\ user' = GetProp(body, "user")
            /\ IF UserMissing(user')
               THEN Return(MissingUserResponse)
               ELSE Goto("key")
    /\ UNCHANGED <<invocations, event, env, body, apiKey, r, data, calls>>

\* Lines 18-25.
CredentialCheck ==
    /\ pc = "key"
    /\ steps' = Append(steps, "key")
    /\ apiKey' = env
    /\ IF KeyMissing(apiKey')
       THEN Return(MissingKeyResponse)
       ELSE Goto("fetch")
    /\ UNCHANGED <<invocations, event, env, body, user, r, data, calls>>

\* Lines 29-44: the request is issued and the handler awaits its outcome.
IssueFetch ==
    /\ pc = "fetch"
    /\ steps' = Append(steps, "fetch")
    /\ calls' = Append(calls, OutboundRequest(user, apiKey))
    /\ Goto("awaitFetch")
    /\ UNCHANGED <<invocations, event, env, body, user, apiKey, r, data>>

\* The awaited fetch resolves with a response of any status.
FetchResolve ==
    /\ pc = "awaitFetch"
    /\ \E status \in Statuses, text \in UpstreamTexts, complete \in BOOLEAN :
          r' = [status |-> status, text |-> text, complete |-> complete]
    /\ Goto("awaitJson")
    /\ UNCHANGED <<invocations, event, env, body, user, apiKey, data, calls, steps>>

\* The awaited fetch rejects: a network failure.
FetchReject ==
    /\ pc = "awaitFetch"
    /\ Throw(FetchFailed)
    /\ UNCHANGED <<invocations, event, env, body, user, apiKey, r, data, calls, steps>>

\* Line 46: the awaited r.json() resolves with the parsed body.
JsonResolve ==
    /\ pc = "awaitJson"
    /\ r.complete
    /\ JSONParse(r.text).ok
    /\ data' = JSONParse(r.text).val
    /\ steps' = Append(steps, "json")
    /\ Goto("map")
    /\ UNCHANGED <<invocations, event, env, body, user, apiKey, r, calls>>

\* Line 46: the awaited r.json() rejects, the body being no JSON document.
JsonRejectSyntax ==
    /\ pc = "awaitJson"
    /\ r.complete
    /\ ~JSONParse(r.text).ok
    /\ steps' = Append(steps, "json")
    /\ Throw(JSONParse(r.text).exc)
    /\ UNCHANGED <<invocations, event, env, body, user, apiKey, r, data, calls>>

\* Line 46: the awaited r.json() rejects, the connection ending before the
\* body does.
JsonRejectTerminated ==
    /\ pc = "awaitJson"
    /\ ~r.complete
    /\ steps' = Append(steps, "json")
    /\ Throw(BodyTerminated)
    /\ UNCHANGED <<invocations, event, env, body, user, apiKey, r, data, calls>>

\* Lines 48-60.
ResultMapping ==
    /\ pc = "map"
    /\ steps' = Append(steps, "map")
    /\ IF ~Ok(r.status)
       THEN Return(UpstreamErrorResponse(r.status, data))
       ELSE IF PropThrows(data)
            THEN Throw(PropTypeError(data, "client_secret"))
            ELSE Return(SuccessResponse(data))
    /\ UNCHANGED <<invocations, event, env, body, user, apiKey, r, data, calls>>

\* Mutant: a failed outbound call is tried once more before giving up.
CatchRetrying ==
    /\ pc = "catch"
    /\ steps' = Append(steps, "catch")
    /\ IF Len(calls) = 1
       THEN pc' = "fetch" /\ responses' = responses
       ELSE pc' = "returned" /\ responses' = Append(responses, CaughtResponse(e))
    /\ UNCHANGED <<invocations, event, env, body, user, apiKey, r, data, e, calls>>

\* Lines 61-67.
Catch ==
    /\ pc = "catch"
    /\ steps' = Append(steps, "catch")
    /\ pc' = "returned"
    /\ responses' = Append(responses, CaughtResponse(e))
    /\ UNCHANGED <<invocations, event, env, body, user, apiKey, r, data, e, calls>>

\* The steps the handler takes by itself, and those that wait on the network.
HandlerStep ==
    \/ MethodCheck
    \/ BodyParse
    \/ UserCheck
    \/ CredentialCheck
    \/ IssueFetch
    \/ ResultMapping
    \/ Catch

NetworkStep ==
    \/ FetchResolve
    \/ FetchReject
    \/ JsonResolve
    \/ JsonRejectSyntax
    \/ JsonRejectTerminated

Next == Invoke \/ HandlerStep \/ NetworkStep

Spec == Init /\ [][Next]_vars

\* The event loop runs a continuation that is ready; the network owes nothing.
FairSpec == Spec /\ WF_vars(HandlerStep)

----------------------------------------------------------------------------
(* Vocabulary of the properties: the inputs of an invocation, classified   *)
(* from the event, the environment and the outbound response alone.        *)

Returned == pc = "returned"

Response == responses[1]

IsPost == event.httpMethod = "POST"

\* The body is missing (absent or null) or empty.
BodyAbsent == event.body \in { Undefined, Null, Str("") }

\* The body is the text of a JSON document.
BodyIsDoc == event.body.t = "string" /\ IsJSONText(event.body.s)

\* The body is a non-empty text that is no JSON document.
BodyMalformed ==
    event.body.t = "string" /\ event.body.s # "" /\ ~IsJSONText(event.body.s)

BodyValue == JSONParse(event.body.s).val

\* The request carries no `user` field.
NoUserField == BodyAbsent \/ (BodyIsDoc /\ ~HasProp(BodyValue, "user"))

\* The request carries a `user` field whose value is not falsy.
TruthyUser ==
    /\ BodyIsDoc
    /\ HasProp(BodyValue, "user")
    /\ GetProp(BodyValue, "user") \notin { Str(""), Num(0), False, Null }

KeyAbsent == env = Undefined

\* The outbound call has completed: a response came, body and all.
Completed == r # NoResponse /\ r.complete

Failure == Completed /\ (r.status < 200 \/ r.status > 299)

Success == Completed /\ r.status >= 200 /\ r.status <= 299

\* The outbound body is the text of a JSON document.
UpstreamIsDoc == Completed /\ IsJSONText(r.text)

UpstreamValue == JSONParse(r.text).val

JsonTagged(resp) == <<"Content-Type", "application/json">> \in resp.headers

ErrorBody(message) == "{\"error\":\"" \o message \o "\"}"

Expect405 ==
    [statusCode |-> 405, headers |-> {}, body |-> "Method Not Allowed"]

Expect400 ==
    [statusCode |-> 400,
     headers |-> { <<"Content-Type", "application/json">> },
     body |-> ErrorBody("Missing 'user'")]

ExpectMissingKey ==
    [statusCode |-> 500,
     headers |-> { <<"Content-Type", "application/json">> },
     body |-> ErrorBody("Missing OPENAI_API_KEY in Netlify env")]

Expect500(message) ==
    [statusCode |-> 500,
     headers |-> { <<"Content-Type", "application/json">> },
     body |-> ErrorBody(message)]

----------------------------------------------------------------------------
(* C1 *)

\* C1 as stated: when the credential is absent from the environment, every
\* POST, whatever its body (with a user, without one, empty or malformed),
\* is answered 500 {error: "Missing OPENAI_API_KEY in Netlify env"}.
C1_Original ==
    (Returned /\ IsPost /\ KeyAbsent) => Response = ExpectMissingKey

\* C1 amended: when the credential is absent from the environment, a POST
\* whose body is a JSON document carrying a truthy `user` is answered 500
\* {error: "Missing OPENAI_API_KEY in Netlify env"} and no outbound request is
\* issued; the body is validated before the credential is consulted.
C1_MissingKeyAfterValidation ==
    (Returned /\ IsPost /\ KeyAbsent /\ TruthyUser)
        => (Response = ExpectMissingKey /\ calls = <<>>)

C1_Witness ==
    /\ Returned /\ IsPost /\ KeyAbsent /\ TruthyUser
    /\ Response = ExpectMissingKey

----------------------------------------------------------------------------
(* C2 *)

\* C2 as stated: whenever the outbound call completes with a non-success
\* status, the response carries that same status and the body
\* {error: <outbound body>}, for every upstream status and payload.
C2_Original ==
    (Returned /\ Failure)
        => /\ Response.statusCode = r.status
           /\ Response.body = "{\"error\":" \o r.text \o "}"

\* C2 amended: whenever the outbound call completes with a non-success status
\* and a body that is a JSON document, the response carries that same status,
\* the JSON content type and the body {error: <outbound body>}.
C2_UpstreamErrorPassThrough ==
    (Returned /\ Failure /\ UpstreamIsDoc)
        => /\ Response.statusCode = r.status
           /\ JsonTagged(Response)
           /\ Response.body = "{\"error\":" \o r.text \o "}"

C2_Witness ==
    /\ Returned /\ Failure /\ UpstreamIsDoc
    /\ r.status = 401
    /\ Response.statusCode = 401
    /\ Response.body = "{\"error\":{\"error\":\"invalid_api_key\"}}"

----------------------------------------------------------------------------
(* C3 *)

\* C3: a request whose method is not POST is answered 405 with the plain-text
\* body "Method Not Allowed" and nothing else happens: the body is not
\* parsed, the credential is not read and no outbound request is issued.
C3_MethodNotAllowed ==
    (Returned /\ ~IsPost)
        => /\ Response = Expect405
           /\ steps = <<"method">>
           /\ body = Undefined
           /\ apiKey = Undefined
           /\ calls = <<>>

C3_Witness ==
    /\ Returned /\ ~IsPost /\ BodyMalformed
    /\ Response.statusCode = 405

----------------------------------------------------------------------------
(* C4 *)

\* C4 as stated: every POST that carries no `user` field, an empty or missing
\* body included, is answered 400 {error: "Missing 'user'"}, whether or not
\* the credential is present, and no outbound request is issued.
C4_Original ==
    (Returned /\ IsPost /\ NoUserField)
        => (Response = Expect400 /\ calls = <<>>)

\* C4 amended: every POST whose body is missing, empty or a JSON document
\* other than null that carries no `user` field is answered 400
\* {error: "Missing 'user'"}, whether or not the credential is present, and
\* no outbound request is issued.
C4_MissingUser ==
    (Returned /\ IsPost /\ NoUserField /\ ~(BodyIsDoc /\ BodyValue = Null))
        => (Response = Expect400 /\ calls = <<>> /\ apiKey = Undefined)

C4_Witness ==
    /\ Returned /\ IsPost /\ BodyAbsent /\ ~KeyAbsent
    /\ Response = Expect400

----------------------------------------------------------------------------
(* C5 *)

\* The response body is a JSON object of exactly one field, client_secret,
\* whose value is v.
OnlyClientSecret(resp, v) ==
    /\ IsJSONText(resp.body)
    /\ JSONParse(resp.body).val = Obj(<< <<"client_secret", v>> >>)

\* C5 as stated: whenever the outbound call succeeds, the response is 200
\* with a JSON body of exactly one field, client_secret, equal to the
\* client_secret of the outbound body.
C5_Original ==
    (Returned /\ Success)
        => /\ Response.statusCode = 200
           /\ \E v \in JsonDocs : OnlyClientSecret(Response, v)

\* C5 amended: whenever the outbound call succeeds with a body that is a JSON
\* object holding client_secret, the response is 200 with a JSON body of
\* exactly one field, client_secret, equal to the client_secret of the
\* outbound body; no other field of the outbound body appears.
C5_ClientSecretOnly ==
    (Returned /\ Success /\ UpstreamIsDoc /\ HasProp(UpstreamValue, "client_secret"))
        => /\ Response.statusCode = 200
           /\ JsonTagged(Response)
           /\ OnlyClientSecret(Response, GetProp(UpstreamValue, "client_secret"))

C5_Witness ==
    /\ Returned /\ Success
    /\ r.text = "{\"client_secret\":\"sec_123\",\"other\":\"ignored\"}"
    /\ Response.statusCode = 200
    /\ Response.body = "{\"client_secret\":\"sec_123\"}"

----------------------------------------------------------------------------
(* C6 *)

\* The outbound call was issued and rejected: a network failure.
FetchRejected == Returned /\ calls # <<>> /\ r = NoResponse

\* The outbound response came but its body could not be read as JSON.
UpstreamUnreadable ==
    Returned /\ r # NoResponse /\ (~r.complete \/ ~IsJSONText(r.text))

\* What the SyntaxError of a text that is no JSON document reads as a string:
\* of the lone opening brace, and of a text that ends where a value is due.
SyntaxErrorText(text) ==
    IF text = "{"
    THEN "SyntaxError: Expected property name or '}' in JSON at position 1"
    ELSE "SyntaxError: Unexpected end of JSON input"

\* C6: a failure raised during a POST invocation by the parsing of the body,
\* by the outbound call or by the reading of the outbound body is answered
\* 500 {error: <the exception as a string>}, and the handler never throws:
\* an invocation that has stopped has returned exactly one response.
C6_FailuresCaught ==
    /\ pc \in { "idle", "method", "parse", "user", "key", "fetch",
                "awaitFetch", "awaitJson", "map", "catch", "returned" }
    /\ Returned => Len(responses) = 1
    /\ (Returned /\ IsPost /\ BodyMalformed)
          => Response = Expect500(SyntaxErrorText(event.body.s))
    /\ FetchRejected => Response = Expect500("TypeError: fetch failed")
    /\ (UpstreamUnreadable /\ r.complete)
          => Response = Expect500(SyntaxErrorText(r.text))
    /\ (UpstreamUnreadable /\ ~r.complete)
          => Response = Expect500("TypeError: terminated")
    /\ (Returned /\ e # NoException) => Response = Expect500(StringOf(e))

C6_Witness ==
    /\ UpstreamUnreadable /\ r.complete /\ r.status = 200
    /\ Response.statusCode = 500
    /\ e = SyntaxErrorEndOfInput

----------------------------------------------------------------------------
(* C8 *)

\* C8: an invocation issues at most one outbound request, and only after the
\* method check, the body parse, the user check and the credential check
\* have passed, in that order; one that ends with the wrong-method 405, the
\* missing-user 400 or the missing-key 500 issues none.
C8_SingleOutboundCall ==
    /\ Len(calls) <= 1
    /\ Cardinality({ i \in 1..Len(steps) : steps[i] = "fetch" }) = Len(calls)
    /\ calls # <<>>
          => /\ SubSeq(steps, 1, 5) = <<"method", "parse", "user", "key", "fetch">>
             /\ IsPost
             /\ TruthyUser
             /\ env \notin { Undefined, Str("") }
    /\ (Returned /\ Response \in { Expect405, Expect400, ExpectMissingKey })
          => calls = <<>>

C8_Witness ==
    /\ Returned /\ Len(calls) = 1
    /\ Failure
    /\ steps = <<"method", "parse", "user", "key", "fetch", "json", "map">>

----------------------------------------------------------------------------
(* C9 *)

\* C9: every response carries a JSON body and the header
\* Content-Type: application/json, except the wrong-method 405, whose body is
\* plain text and which carries no such header.
C9_JsonContentType ==
    Returned
        => /\ JsonTagged(Response) <=> Response # Expect405
           /\ JsonTagged(Response) <=> IsJSONText(Response.body)
           /\ Response = Expect405 <=> ~IsPost

\* An upstream 405 is passed through as JSON, unlike the wrong-method 405.
C9_Witness ==
    /\ Returned /\ IsPost
    /\ Response.statusCode = 405
    /\ JsonTagged(Response)

----------------------------------------------------------------------------
(* C10 *)

FalsyUser ==
    /\ BodyIsDoc
    /\ HasProp(BodyValue, "user")
    /\ GetProp(BodyValue, "user") \in { Str(""), Num(0), False, Null }

\* C10: the user check tests truthiness: a POST whose `user` is the empty
\* string, 0, false or null is answered 400 {error: "Missing 'user'"} with no
\* outbound request, as if the field were absent; a POST whose body is the
\* JSON literal null is answered 500 by the error boundary.
C10_TruthinessOfUser ==
    /\ (Returned /\ IsPost /\ FalsyUser)
          => (Response = Expect400 /\ calls = <<>>)
    /\ (Returned /\ IsPost /\ BodyIsDoc /\ BodyValue = Null)
          => /\ Response =
                  Expect500("TypeError: Cannot read properties of null (reading 'user')")
             /\ steps = <<"method", "parse", "user", "catch">>

C10_Witness ==
    /\ Returned /\ IsPost /\ FalsyUser
    /\ GetProp(BodyValue, "user") = Num(0)
    /\ ~KeyAbsent
    /\ Response = Expect400

----------------------------------------------------------------------------
(* C7 *)

\* The handler is between two awaits, with a step of its own to take.
Running == pc \in { "method", "parse", "user", "key", "fetch", "map", "catch" }

\* The handler awaits the network.
Suspended == pc \in { "awaitFetch", "awaitJson" }

LastStep == steps[Len(steps)]

\* The six terminal outcomes, each the end of one path through the handler.
OutcomeHolds(i) ==
    CASE i = 1 -> LastStep = "method" /\ Response = Expect405
      [] i = 2 -> LastStep = "user" /\ Response = Expect400
      [] i = 3 -> LastStep = "key" /\ Response = ExpectMissingKey
      [] i = 4 -> /\ LastStep = "map" /\ Failure
                  /\ Response.statusCode = r.status
                  /\ Response.body = "{\"error\":" \o r.text \o "}"
      [] i = 5 -> LastStep = "map" /\ Success /\ Response.statusCode = 200
      [] i = 6 -> /\ LastStep = "catch"
                  /\ \E ex \in Exceptions : Response = Expect500(StringOf(ex))

OneOutcome ==
    /\ Len(responses) = 1
    /\ Cardinality({ i \in 1..6 : OutcomeHolds(i) }) = 1

\* C7: every invocation, once what it awaits has resolved or rejected, ends
\* with exactly one response, which is one of the six terminal outcomes:
\* a running handler always comes to return or to await the network, never
\* responds before it returns, and returns one response of the six.
C7_OneTerminalOutcome ==
    /\ [](Returned => OneOutcome)
    /\ [](~Returned => responses = <<>>)
    /\ (Running ~> (Returned \/ Suspended))

C7_Witness ==
    /\ Returned /\ FetchRejected
    /\ OutcomeHolds(6)

====
